---- MODULE Spec2Model ----
(***************************************************************************)
(* Model of src/main.py: the rpc decorator's pipeline (decode, authorize,  *)
(* check the context type, invoke the handler, encode) around the example  *)
(* endpoint myFunc, with the fixed user table USERS_DICT.                   *)
(*                                                                         *)
(* Text is a sequence of one-character strings, so that str.capitalize and *)
(* str.split are computed and not assumed.  A URL is a sequence of tokens, *)
(* each either the separator "/" or a piece of text without a separator.   *)
(* A request body is the JSON document its text parses to, or text that is *)
(* not JSON at all.                                                        *)
(***************************************************************************)
EXTENDS Integers, Sequences, FiniteSets, TLC

VARIABLES
    users,            \* USERS_DICT, the process-wide user table
    calls,            \* number of invocations of inner started so far
    request,          \* inner's parameter: FakeRequest(url, body)
    func,             \* the function rpc decorates (its name and annotations)
    pc,               \* position of the current invocation in the pipeline
    validated_input,  \* local of inner: the decoded input
    ctx,              \* local of inner: the authorization context
    output,           \* the value the handler returned
    result,           \* the value inner returns (the encoded output)
    error,            \* the exception that left inner, if any
    spy,              \* the (ctx, schema) pairs the handler was called with
    steps,            \* the pipeline steps this invocation has attempted
    prevCtx,          \* the context object an earlier invocation built
    rejected          \* the authorization rejections observed so far

vars == <<users, calls, request, func, pc, validated_input, ctx, output,
          result, error, spy, steps, prevCtx, rejected>>

----------------------------------------------------------------------------
(* Bounds of the model. *)

MaxCalls == 3      \* invocations of inner per behaviour
MaxUrlLen == 2     \* tokens in a URL
MaxFooLen == 1     \* characters in a generated foo
MaxBar == 2        \* generated bar values range over -MaxBar..MaxBar

----------------------------------------------------------------------------
(* Text. *)

RECURSIVE Join(_)
Join(parts) ==
    IF parts = <<>> THEN "" ELSE Head(parts) \o Join(Tail(parts))

Upper(c) ==
    CASE c = "h" -> "H" [] c = "e" -> "E" [] c = "l" -> "L" [] c = "o" -> "O"
      [] OTHER -> c

Lower(c) ==
    CASE c = "H" -> "h" [] c = "E" -> "e" [] c = "L" -> "l" [] c = "O" -> "o"
      [] OTHER -> c

\* str.capitalize(): first character upper-cased, the rest lower-cased.
capitalize(s) ==
    [i \in 1..Len(s) |-> IF i = 1 THEN Upper(s[i]) ELSE Lower(s[i])]

\* str.split("/"): the segments between separators; always at least one.
RECURSIVE split(_)
split(url) ==
    IF url = <<>> THEN << <<>> >>
    ELSE LET rest == split(Tail(url))
         IN  IF Head(url) = "/"
             THEN << <<>> >> \o rest
             ELSE << <<Head(url)>> \o Head(rest) >> \o Tail(rest)

\* request.url.split("/")[-1]
LastSegment(url) ==
    LET segs == split(url) IN Join(segs[Len(segs)])

----------------------------------------------------------------------------
(* JSON values and the declared shapes. *)

JInt(n) == [t |-> "int", n |-> n, half |-> 0, s |-> <<>>]
JStr(s) == [t |-> "str", n |-> 0, half |-> 0, s |-> s]
JNull == [t |-> "null", n |-> 0, half |-> 0, s |-> <<>>]
\* The float h/2, written as JSON: integer part, then ".0" or ".5".
JFloat(h) ==
    [t |-> IF h < 0 THEN "-float" ELSE "float",
     n |-> (IF h < 0 THEN -h ELSE h) \div 2,
     half |-> (IF h < 0 THEN -h ELSE h) % 2,
     s |-> <<>>]

FakeRequest(url, body) == [url |-> url, body |-> body]

ExampleInput(foo, bar) == [type |-> "ExampleInput", foo |-> foo, bar |-> bar]
NoInput == [type |-> "None", foo |-> <<>>, bar |-> 0]

\* fizz is a float; the model holds it as the number of halves (fizz = halves/2).
ExampleOutput(fizz2, buzz) == [type |-> "ExampleOutput", fizz2 |-> fizz2, buzz |-> buzz]
NoOutput == [type |-> "None", fizz2 |-> 0, buzz |-> <<>>]

GenericAuthContext(user, call) ==
    [type |-> "GenericAuthContext", user |-> user, call |-> call]
NoCtx == [type |-> "None", user |-> "", call |-> 0]

NoError == [kind |-> "None", msg |-> ""]
Exception(msg) == [kind |-> "Exception", msg |-> msg]
AssertionError == [kind |-> "AssertionError", msg |-> ""]
DecodeError == [kind |-> "msgspec.DecodeError", msg |-> "JSON is malformed"]
ValidationError(msg) == [kind |-> "msgspec.ValidationError", msg |-> msg]

USERS_DICT ==
    [bob |-> [permissions |-> <<"read">>],
     alice |-> [permissions |-> <<"read", "write">>]]

----------------------------------------------------------------------------
(* Inputs. *)

UrlTokens == {"/", "alice", "bob", "carol"}
Urls == UNION {[1..n -> UrlTokens] : n \in 0..MaxUrlLen}

hElLo == <<"h", "E", "l", "L", "o">>
FooChars == {"L"}
FooStrings == {hElLo} \cup UNION {[1..n -> FooChars] : n \in 0..MaxFooLen}
BarInts == (-MaxBar..MaxBar) \cup {1234, 1235}

Json(obj) == [valid |-> TRUE, obj |-> obj]
NotJson == [valid |-> FALSE, obj |-> [foo |-> JNull]]

WellFormedBodies ==
    {Json([foo |-> JStr(f), bar |-> JInt(b)]) : f \in FooStrings, b \in BarInts}
    \cup {Json([foo |-> JStr(hElLo), bar |-> JInt(b), baz |-> JNull]) : b \in {1234, 1235}}

MalformedBodies ==
    { NotJson,
      Json([foo |-> JStr(hElLo)]),
      Json([bar |-> JInt(1234)]),
      Json([foo |-> JStr(hElLo), bar |-> JStr(<<"e">>)]),
      Json([foo |-> JStr(hElLo), bar |-> JNull]),
      Json([foo |-> JInt(0), bar |-> JInt(1234)]) }

Bodies == WellFormedBodies \cup MalformedBodies

\* The functions rpc is applied to: a name and the annotation of ctx.
myFunc_def == [name |-> "myFunc", ctx |-> "GenericAuthContext"]
Funcs == {myFunc_def, [name |-> "otherFunc", ctx |-> "OtherAuthContext"]}

----------------------------------------------------------------------------
(* The steps of the pipeline, as functions. *)

\* The mutant of decode: a lax decoder that puts 0 where bar is not an int.
decodeLax(body) ==
    IF ~body.valid
    THEN [ok |-> FALSE, value |-> NoInput, exc |-> DecodeError]
    ELSE IF ~({"foo", "bar"} \subseteq DOMAIN body.obj)
    THEN [ok |-> FALSE, value |-> NoInput,
          exc |-> ValidationError("Object missing required field")]
    ELSE [ok |-> TRUE, value |-> ExampleInput(body.obj.foo.s, body.obj.bar.n),
          exc |-> NoError]

\* json.decode(request.body, type=ExampleInput)
decode(body) ==
    IF ~body.valid
    THEN [ok |-> FALSE, value |-> NoInput, exc |-> DecodeError]
    ELSE IF ~({"foo", "bar"} \subseteq DOMAIN body.obj)
    THEN [ok |-> FALSE, value |-> NoInput,
          exc |-> ValidationError("Object missing required field")]
    ELSE IF body.obj.foo.t # "str" \/ body.obj.bar.t # "int"
    THEN [ok |-> FALSE, value |-> NoInput,
          exc |-> ValidationError("Expected another type")]
    ELSE [ok |-> TRUE, value |-> ExampleInput(body.obj.foo.s, body.obj.bar.n),
          exc |-> NoError]

InSeq(x, seq) == \E i \in 1..Len(seq) : seq[i] = x

AnyPermission(held, has_permissions) ==
    \E i \in 1..Len(has_permissions) : InSeq(has_permissions[i], held)

\* all(perm in user["permissions"] for perm in has_permissions)
AllPermissions(held, has_permissions) ==
    \A i \in 1..Len(has_permissions) : InSeq(has_permissions[i], held)

DataCheckInverted(bar) == bar % 2 = 0

\* bar % 2 != 0, with Python's % (the result has the sign of the divisor)
DataCheckFails(bar) == bar % 2 # 0

UnauthorizedVerbose(check) == Exception("Unauthorized: " \o check)

\* raise Exception("Unauthorized."); check names the raise statement.
Unauthorized(check) == Exception("Unauthorized.")

Rejection(check) ==
    [ok |-> FALSE, ctx |-> NoCtx, exc |-> Unauthorized(check), check |-> check]

\* The mutant of GenericAuthContext.authorize: an unknown user is let in as
\* a guest holding the permissions asked for.
GenericAuthContext_authorizeGuest(tbl, req, has_permissions, bar, call) ==
    LET username == LastSegment(req.url)
        held == IF username \in DOMAIN tbl THEN tbl[username].permissions
                ELSE has_permissions
    IN  IF ~AllPermissions(held, has_permissions) THEN Rejection("permission")
        ELSE IF DataCheckFails(bar) THEN Rejection("data")
        ELSE [ok |-> TRUE, ctx |-> GenericAuthContext(username, call),
              exc |-> NoError, check |-> "none"]

\* GenericAuthContext.authorize(request, has_permissions, bar), reading the
\* table tbl; call identifies the object it constructs.
GenericAuthContext_authorize(tbl, req, has_permissions, bar, call) ==
    LET username == LastSegment(req.url) IN
    IF username \notin DOMAIN tbl THEN Rejection("identity")
    ELSE IF ~AllPermissions(tbl[username].permissions, has_permissions)
    THEN Rejection("permission")
    ELSE IF DataCheckFails(bar) THEN Rejection("data")
    ELSE [ok |-> TRUE, ctx |-> GenericAuthContext(username, call),
          exc |-> NoError, check |-> "none"]

\* ExampleInput.authorize(self, request)
ExampleInput_authorize(tbl, self, req, call) ==
    GenericAuthContext_authorize(tbl, req, <<"read", "write">>, self.bar, call)

\* isinstance(c, func.__annotations__["ctx"])
isinstance(c, type) == c.type = type

myFuncUpper(schema, c) ==
    ExampleOutput(schema.bar, [i \in 1..Len(schema.foo) |-> Upper(schema.foo[i])])

\* The body of myFunc: ExampleOutput(fizz=schema.bar / 2.0, buzz=schema.foo.capitalize())
myFunc(schema, c) == ExampleOutput(schema.bar, capitalize(schema.foo))

\* json.encode(ExampleOutput): the members in declaration order.
encode(out) ==
    << [key |-> "fizz", val |-> JFloat(out.fizz2)],
       [key |-> "buzz", val |-> JStr(out.buzz)] >>

NoResult == <<>>

----------------------------------------------------------------------------
(* The state machine. *)

Init ==
    /\ users = USERS_DICT
    /\ calls = 0
    /\ request = FakeRequest(<<>>, NotJson)
    /\ func = myFunc_def
    /\ pc = "Idle"
    /\ validated_input = NoInput
    /\ ctx = NoCtx
    /\ output = NoOutput
    /\ result = NoResult
    /\ error = NoError
    /\ spy = <<>>
    /\ steps = <<>>
    /\ prevCtx = NoCtx
    /\ rejected = {}

\* inner(request) is called on the decorated function f.
Call(url, body, f) ==
    /\ pc = "Idle"
    /\ calls < MaxCalls
    /\ calls' = calls + 1
    /\ request' = FakeRequest(url, body)
    /\ func' = f
    /\ pc' = "Received"
    /\ validated_input' = NoInput
    /\ ctx' = NoCtx
    /\ output' = NoOutput
    /\ result' = NoResult
    /\ error' = NoError
    /\ spy' = <<>>
    /\ steps' = <<>>
    /\ UNCHANGED <<users, prevCtx, rejected>>

Decode ==
    /\ pc = "Received"
    /\ LET d == decode(request.body) IN
       /\ steps' = Append(steps, "decode")
       /\ IF d.ok
          THEN /\ validated_input' = d.value
               /\ pc' = "Decoded"
               /\ UNCHANGED error
          ELSE /\ error' = d.exc
               /\ pc' = "Error"
               /\ UNCHANGED validated_input
    /\ UNCHANGED <<users, calls, request, func, ctx, output, result, spy,
                   prevCtx, rejected>>

\* The mutant of Authorize: a rejection by the data check also strips the
\* caller's permissions in the table.
AuthorizeLockout ==
    /\ pc = "Decoded"
    /\ LET a == ExampleInput_authorize(users, validated_input, request, calls)
           username == LastSegment(request.url)
       IN
       /\ steps' = Append(steps, "authorize")
       /\ IF a.ok
          THEN /\ ctx' = a.ctx
               /\ pc' = "Authorized"
               /\ UNCHANGED <<error, rejected, users>>
          ELSE /\ error' = a.exc
               /\ pc' = "Error"
               /\ rejected' = rejected \cup {[check |-> a.check, exc |-> a.exc]}
               /\ users' = IF a.check = "data"
                           THEN [users EXCEPT ![username].permissions = <<>>]
                           ELSE users
               /\ UNCHANGED ctx
    /\ UNCHANGED <<calls, request, func, validated_input, output,
                   result, spy, prevCtx>>

Authorize ==
    /\ pc = "Decoded"
    /\ LET a == ExampleInput_authorize(users, validated_input, request, calls) IN
       /\ steps' = Append(steps, "authorize")
       /\ IF a.ok
          THEN /\ ctx' = a.ctx
               /\ pc' = "Authorized"
               /\ UNCHANGED <<error, rejected>>
          ELSE /\ error' = a.exc
               /\ pc' = "Error"
               /\ rejected' = rejected \cup {[check |-> a.check, exc |-> a.exc]}
               /\ UNCHANGED ctx
    /\ UNCHANGED <<users, calls, request, func, validated_input, output,
                   result, spy, prevCtx>>

\* The mutant of Invoke: a context kept from an earlier invocation is handed
\* to the handler in place of the one just built.
InvokeStale ==
    /\ pc = "Authorized"
    /\ LET c == IF prevCtx # NoCtx THEN prevCtx ELSE ctx IN
       IF ~isinstance(c, func.ctx)
       THEN /\ steps' = Append(steps, "verify")
            /\ error' = AssertionError
            /\ pc' = "Error"
            /\ UNCHANGED <<output, spy>>
       ELSE /\ steps' = steps \o <<"verify", "handler">>
            /\ spy' = Append(spy, [ctx |-> c, schema |-> validated_input])
            /\ output' = myFunc(validated_input, c)
            /\ pc' = "Handled"
            /\ UNCHANGED error
    /\ UNCHANGED <<users, calls, request, func, validated_input, ctx, result,
                   prevCtx, rejected>>

\* The mutant of Invoke: the assert is left out.
InvokeUnchecked ==
    /\ pc = "Authorized"
    /\ steps' = steps \o <<"verify", "handler">>
    /\ spy' = Append(spy, [ctx |-> ctx, schema |-> validated_input])
    /\ output' = myFunc(validated_input, ctx)
    /\ pc' = "Handled"
    /\ UNCHANGED <<users, calls, request, func, validated_input, ctx, result,
                   error, prevCtx, rejected>>

Invoke ==
    /\ pc = "Authorized"
    /\ IF ~isinstance(ctx, func.ctx)
       THEN /\ steps' = Append(steps, "verify")
            /\ error' = AssertionError
            /\ pc' = "Error"
            /\ UNCHANGED <<output, spy>>
       ELSE /\ steps' = steps \o <<"verify", "handler">>
            /\ spy' = Append(spy, [ctx |-> ctx, schema |-> validated_input])
            /\ output' = myFunc(validated_input, ctx)
            /\ pc' = "Handled"
            /\ UNCHANGED error
    /\ UNCHANGED <<users, calls, request, func, validated_input, ctx, result,
                   prevCtx, rejected>>

Encode ==
    /\ pc = "Handled"
    /\ steps' = Append(steps, "encode")
    /\ result' = encode(output)
    /\ pc' = "Encoded"
    /\ UNCHANGED <<users, calls, request, func, validated_input, ctx, output,
                   error, spy, prevCtx, rejected>>

Return ==
    /\ pc = "Encoded"
    /\ pc' = "Returned"
    /\ UNCHANGED <<users, calls, request, func, validated_input, ctx, output,
                   result, error, spy, steps, prevCtx, rejected>>

\* The mutant of Exit: an error is caught and the same request is run again.
ExitRetry ==
    \/ /\ pc = "Error"
       /\ pc' = "Received"
       /\ error' = NoError
       /\ steps' = <<>>
       /\ UNCHANGED <<users, calls, request, func, validated_input, ctx,
                      output, result, spy, prevCtx, rejected>>
    \/ /\ pc \in {"Returned", "Error"}
       /\ pc' = "Idle"
       /\ request' = FakeRequest(<<>>, NotJson)
       /\ func' = myFunc_def
       /\ validated_input' = NoInput
       /\ ctx' = NoCtx
       /\ output' = NoOutput
       /\ result' = NoResult
       /\ error' = NoError
       /\ spy' = <<>>
       /\ steps' = <<>>
       /\ prevCtx' = IF ctx # NoCtx THEN ctx ELSE prevCtx
       /\ UNCHANGED <<users, calls, rejected>>

\* inner has returned or raised: its caller has the outcome and the frame of
\* inner, with its locals, is gone.  The context object it built is garbage
\* from here on; prevCtx keeps it in view.
Exit ==
    /\ pc \in {"Returned", "Error"}
    /\ pc' = "Idle"
    /\ request' = FakeRequest(<<>>, NotJson)
    /\ func' = myFunc_def
    /\ validated_input' = NoInput
    /\ ctx' = NoCtx
    /\ output' = NoOutput
    /\ result' = NoResult
    /\ error' = NoError
    /\ spy' = <<>>
    /\ steps' = <<>>
    /\ prevCtx' = IF ctx # NoCtx THEN ctx ELSE prevCtx
    /\ UNCHANGED <<users, calls, rejected>>

Next ==
    \/ pc = "Idle" /\ \E url \in Urls, body \in Bodies, f \in Funcs : Call(url, body, f)
    \/ Decode
    \/ Authorize
    \/ Invoke
    \/ Encode
    \/ Return
    \/ Exit

Spec == Init /\ [][Next]_vars

----------------------------------------------------------------------------
(* What the claims speak of. *)

Username == LastSegment(request.url)
Started == pc # "Idle"
Finished == pc \in {"Returned", "Error"}
BodyOk == request.body \in WellFormedBodies
Bar == request.body.obj.bar.n
Foo == request.body.obj.foo.s
Even(n) == 2 * (n \div 2) = n
Held(u) == {USERS_DICT[u].permissions[i] : i \in 1..Len(USERS_DICT[u].permissions)}
Required == {"read", "write"}
Pipeline == <<"decode", "authorize", "verify", "handler", "encode">>
IsPrefix(a, b) == Len(a) <= Len(b) /\ a = SubSeq(b, 1, Len(a))
HandlerRan == spy # <<>>
AuthorizationError == Exception("Unauthorized.")
RejectedByAuthorization ==
    /\ pc = "Error"
    /\ error = AuthorizationError
    /\ ~HandlerRan
    /\ ctx = NoCtx
    /\ output = NoOutput

\* C1: the handler is invoked only after this invocation's authorization step
\* ran and succeeded for this invocation's request and decoded input, and the
\* context it receives is the object that step built in this invocation, never
\* one an earlier invocation built.
C1_HandlerOnlyAfterAuthorization ==
    HandlerRan =>
        /\ Len(spy) = 1
        /\ \E i, j \in 1..Len(steps) :
              i < j /\ steps[i] = "authorize" /\ steps[j] = "handler"
        /\ validated_input = ExampleInput(Foo, Bar)
        /\ spy[1].schema = validated_input
        /\ spy[1].ctx = ctx
        /\ ctx = GenericAuthContext(Username, calls)
        /\ ctx # prevCtx
        /\ Username \in DOMAIN USERS_DICT
        /\ Required \subseteq Held(Username)
        /\ Even(validated_input.bar)

C1_Witness ==
    /\ HandlerRan
    /\ calls = 2
    /\ prevCtx = GenericAuthContext("alice", 1)
    /\ spy[1].ctx.call = 2

\* C2: a well-formed body with an identity that is no key of the user table is
\* rejected with the authorization error; the handler is never invoked.
C2_UnknownIdentityRejected ==
    (Started /\ BodyOk /\ Username \notin {"bob", "alice"}) =>
        /\ ~HandlerRan
        /\ ctx = NoCtx
        /\ pc \in {"Received", "Decoded", "Error"}
        /\ pc = "Error" => RejectedByAuthorization

C2_Witness ==
    /\ pc = "Error"
    /\ BodyOk
    /\ Username = "carol"
    /\ Even(Bar)
    /\ error = AuthorizationError

\* C3: a well-formed body with an identity of the table whose permissions do
\* not include all of {read, write} is rejected with the authorization error
\* before the handler runs, whatever bar is, and no context is produced.
C3_MissingPermissionRejected ==
    (Started /\ BodyOk /\ Username \in {"bob", "alice"}
       /\ ~(Required \subseteq Held(Username))) =>
        /\ ~HandlerRan
        /\ ctx = NoCtx
        /\ pc \in {"Received", "Decoded", "Error"}
        /\ pc = "Error" => RejectedByAuthorization

C3_Witness ==
    /\ pc = "Error"
    /\ BodyOk
    /\ Username = "bob"
    /\ Bar = 1234
    /\ error = AuthorizationError

\* C4: with an identity of the table that holds all required permissions,
\* authorization succeeds exactly when bar is even: an even bar (0 and the
\* negative ones too) gives a context and the handler runs, an odd bar gives
\* the authorization error and the handler does not run.
C4_EvenBarDecides ==
    (Started /\ BodyOk /\ Username \in {"bob", "alice"}
       /\ Required \subseteq Held(Username)
       /\ pc \notin {"Received", "Decoded"}) =>
        IF Even(Bar)
        THEN /\ ctx = GenericAuthContext(Username, calls)
             /\ error # AuthorizationError
             /\ (func = myFunc_def /\ pc # "Authorized") =>
                   (HandlerRan /\ pc \in {"Handled", "Encoded", "Returned"})
        ELSE RejectedByAuthorization

C4_Witness ==
    /\ pc = "Returned"
    /\ BodyOk
    /\ Username = "alice"
    /\ Bar = -2
    /\ HandlerRan
    /\ \E r \in rejected : r.check = "data"

\* C5: the steps run in the order decode, authorize, verify, handler, encode;
\* a body that does not decode into ExampleInput fails with the decode error
\* before authorization is attempted, whatever the URL's identity, and neither
\* authorization nor the handler runs.
C5_DecodeFirst ==
    /\ IsPrefix(steps, Pipeline)
    /\ (Started /\ ~BodyOk /\ pc # "Received") =>
          /\ pc = "Error"
          /\ error.kind \in {"msgspec.DecodeError", "msgspec.ValidationError"}
          /\ steps = <<"decode">>
          /\ ctx = NoCtx
          /\ ~HandlerRan

C5_Witness ==
    /\ pc = "Error"
    /\ request.body = Json([foo |-> JStr(hElLo), bar |-> JStr(<<"e">>)])
    /\ Username = "carol"
    /\ error.kind = "msgspec.ValidationError"
    /\ steps = <<"decode">>

PipelineEdges ==
    { <<"Idle", "Received">>, <<"Received", "Decoded">>,
      <<"Decoded", "Authorized">>, <<"Authorized", "Handled">>,
      <<"Handled", "Encoded">>, <<"Encoded", "Returned">>,
      <<"Returned", "Idle">>, <<"Error", "Idle">> }

\* Once in Error no step runs and nothing is retried: the invocation's state
\* stays as it is until the caller has the exception.
ErrorAbsorbing ==
    pc = "Error" =>
        \/ UNCHANGED vars
        \/ pc' = "Idle" /\ calls' = calls /\ rejected' = rejected /\ users' = users

FollowsStateMachine(errorSources) ==
    /\ pc' # pc =>
          \/ <<pc, pc'>> \in PipelineEdges
          \/ pc' = "Error" /\ pc \in errorSources
    /\ ErrorAbsorbing

\* C6 as claimed: Received -> Decoded -> Authorized -> Handled -> Encoded ->
\* Returned, with Error absorbing and entered only from Received, Decoded or
\* Handled.
C6_ErrorOnlyFromReceivedDecodedHandled ==
    [][FollowsStateMachine({"Received", "Decoded", "Handled"})]_vars

\* C6 as amended: Error is also entered from Authorized, when the context
\* the authorization step returned is not of the type the handler declares.
C6_ErrorAlsoFromAuthorized ==
    [][FollowsStateMachine({"Received", "Decoded", "Authorized", "Handled"})]_vars

C6_Witness ==
    /\ pc = "Error"
    /\ error = AssertionError
    /\ ctx # NoCtx
    /\ steps = <<"decode", "authorize", "verify">>

\* C7: any two authorization rejections, whichever check made them, show the
\* caller the same error: the same kind and the same message.
C7_RejectionsIndistinguishable ==
    /\ \A r1, r2 \in rejected : r1.exc = r2.exc
    /\ \A r \in rejected : r.exc = AuthorizationError
    /\ (pc = "Error" /\ steps = <<"decode", "authorize">>) =>
          /\ error = AuthorizationError
          /\ \A r \in rejected : r.exc = error

C7_Witness ==
    /\ {r.check : r \in rejected} = {"identity", "permission", "data"}
    /\ pc = "Error"
    /\ Username = "alice"
    /\ error = AuthorizationError

\* C8: a context of another type than the handler declares makes the pipeline
\* fail with an error that is not the authorization error; the handler is not
\* invoked and never sees that context.
C8_MismatchedContextStopsPipeline ==
    /\ (ctx # NoCtx /\ ctx.type # func.ctx /\ pc # "Authorized") =>
          /\ pc = "Error"
          /\ error = AssertionError
          /\ error.kind # AuthorizationError.kind
          /\ ~HandlerRan
          /\ output = NoOutput
          /\ result = NoResult
    /\ \A i \in 1..Len(spy) : spy[i].ctx.type = func.ctx

C8_Witness ==
    /\ pc = "Error"
    /\ func.ctx = "OtherAuthContext"
    /\ ctx = GenericAuthContext("alice", calls)
    /\ error = AssertionError

Hello == <<"H", "e", "l", "l", "o">>

\* C9: on the example endpoint, a request of alice with a well-formed body
\* and an even bar ends in Returned, and what is returned is the encoding of
\* fizz = bar / 2 and buzz = foo capitalized, the context's user being the
\* URL's last segment; foo = "hElLo", bar = 1234 gives fizz 617.0, buzz "Hello".
C9_ExampleEndpointResult ==
    (Finished /\ func = myFunc_def /\ BodyOk /\ Username = "alice" /\ Even(Bar)) =>
        /\ pc = "Returned"
        /\ error = NoError
        /\ spy[1].ctx.user = Username
        /\ Len(result) = 2
        /\ result[1].key = "fizz"
        /\ result[1].val.t = (IF Bar < 0 THEN "-float" ELSE "float")
        /\ result[1].val.half = 0
        /\ 2 * result[1].val.n = (IF Bar < 0 THEN -Bar ELSE Bar)
        /\ result[2].key = "buzz"
        /\ result[2].val.t = "str"
        /\ Len(result[2].val.s) = Len(Foo)
        /\ \A i \in 1..Len(Foo) :
              result[2].val.s[i] = IF i = 1 THEN Upper(Foo[i]) ELSE Lower(Foo[i])
        /\ (Foo = hElLo /\ Bar = 1234) =>
              result = << [key |-> "fizz",
                           val |-> [t |-> "float", n |-> 617, half |-> 0, s |-> <<>>]],
                          [key |-> "buzz",
                           val |-> [t |-> "str", n |-> 0, half |-> 0, s |-> Hello]] >>

C9_Witness ==
    /\ pc = "Returned"
    /\ func = myFunc_def
    /\ request.url = <<"/", "alice">>
    /\ Foo = hElLo
    /\ Bar = 1234
    /\ result[1].val.n = 617

\* What inner(request) gives for f, computed from the request alone and the
\* table as it is written in the source.
Expected(req, f) ==
    LET d == decode(req.body)
        a == ExampleInput_authorize(USERS_DICT, d.value, req, 0)
    IN  IF ~d.ok THEN [pc |-> "Error", error |-> d.exc, result |-> NoResult]
        ELSE IF ~a.ok THEN [pc |-> "Error", error |-> a.exc, result |-> NoResult]
        ELSE IF a.ctx.type # f.ctx
        THEN [pc |-> "Error", error |-> AssertionError, result |-> NoResult]
        ELSE [pc |-> "Returned", error |-> NoError,
              result |-> encode(myFunc(d.value, a.ctx))]

====
